---- MODULE Spec2Model ----
(***************************************************************************)
(* Model of the multimodal prompt tokenizer (OmniGenProcessor) and of the  *)
(* batch collator (OmniGenCollator) of ComfyUI_OmniGen_Nodes.              *)
(*                                                                         *)
(* Conventions.  Python lists are TLA+ sequences (1-based); token offsets  *)
(* and mask coordinates keep the 0-based values of the code, so offset k   *)
(* is element k+1 of a sequence.  Python None for pixel_values and         *)
(* image_sizes is the empty sequence: the code treats None and an empty    *)
(* list alike (processor.py:53) and a unit with images has at least one.   *)
(* A batch row b_inx of the code is row b_inx+1 here.                      *)
(***************************************************************************)
EXTENDS Integers, Sequences, FiniteSets

\* ------------------------------------------------------------------ bounds
MaxText == 2      \* items (words or image tags) in one user prompt
MaxImages == 2    \* images supplied with one prompt
MaxBatch == 2     \* units handed to the collator
MaxSteps == 2     \* denoising steps of one request
MaxCalls == 3     \* runs of the sampling nodes that are followed

\* -------------------------------------------------------- program constants
pad_token_id == 2
PatchSize == 16
BOS == 1

\* ------------------------------------------------------------ input domains
\* A prompt is a sequence of items: a word, or a tag <|image_n|>.
Word(n) == [tag |-> FALSE, n |-> n]
Tag(n) == [tag |-> TRUE, n |-> n]

\* \d+ also matches 0, so a tag can carry the index 0.
TagIds == {0, 1, 2}
Items == {Word(3)} \cup {Tag(n) : n \in TagIds}

\* Image tensors [C,H,W] after process_image; validate_image hands over
\* images whose sides are multiples of 16.
Images == {[h |-> 16, w |-> 16], [h |-> 32, w |-> 16]}

\* [height, width] of the output image (node widgets: step 16, min 16).
TargetSizes == {<<16, 16>>, <<16, 32>>}

SeqsUpTo(S, n) == UNION {[1..k -> S] : k \in 0..n}

None == <<>>

\* ------------------------------------------------------------------ helpers
RECURSIVE Flatten(_)
Flatten(ss) == IF ss = <<>> THEN <<>> ELSE Head(ss) \o Flatten(Tail(ss))

Repeat(x, n) == [i \in 1..n |-> x]

RECURSIVE MaxOf(_)
MaxOf(s) ==
  IF Len(s) = 1 THEN s[1]
  ELSE LET m == MaxOf(Tail(s)) IN IF s[1] >= m THEN s[1] ELSE m

RECURSIVE SumOf(_)
SumOf(s) == IF s = <<>> THEN 0 ELSE Head(s) + SumOf(Tail(s))

\* ---------------------------------------------------------------- tokenizer
add_prefix_instruction(prompt) == <<Word(1)>> \o prompt \o <<Word(2)>>

\* The tokenizer collaborator: one id per item, behind a BOS token (id 1).
\* Ids 0 (image placeholder), 1 (BOS) and 2 (pad) are never produced for an
\* item.
TokenOf(item) == IF item.tag THEN 20 + item.n ELSE 3 + item.n

text_tokenizer(chunk) == <<BOS>> \o [i \in 1..Len(chunk) |-> TokenOf(chunk[i])]

\* re.split(pattern, text): the text between the tags, one chunk more than
\* there are tags.
RECURSIVE re_split(_)
re_split(text) ==
  IF \A i \in 1..Len(text) : ~text[i].tag THEN <<text>>
  ELSE LET k == CHOOSE i \in 1..Len(text) :
                  text[i].tag /\ \A j \in 1..(i-1) : ~text[j].tag
       IN <<SubSeq(text, 1, k-1)>> \o re_split(SubSeq(text, k+1, Len(text)))

\* re.findall(pattern, text) followed by the int() of every tag.
IsTag(item) == item.tag
re_findall_ids(text) ==
  LET tags == SelectSeq(text, IsTag) IN [i \in 1..Len(tags) |-> tags[i].n]

\* Lines 58-62: tokenize every chunk, drop a leading BOS of every chunk but
\* the first.
prompt_chunks_of(text) ==
  LET chunks == re_split(text)
      raw == [i \in 1..Len(chunks) |-> text_tokenizer(chunks[i])]
  IN [i \in 1..Len(raw) |->
        IF i > 1 /\ raw[i][1] = 1 THEN Tail(raw[i]) ELSE raw[i]]

\* Mutant of image_token_count: one of the two divisions by 16 is lost.
image_token_count_one_division(img) == (img.h * img.w) \div PatchSize

\* Line 81: the number of placeholder tokens of one image.
image_token_count(img) == ((img.h * img.w) \div PatchSize) \div PatchSize

\* Lines 74-83: the loop over the chunks, from chunk i on, with the ids and
\* spans accumulated so far.
RECURSIVE interleave(_, _, _, _, _)
interleave(chunks, imgs, i, all_input_ids, img_inx) ==
  IF i > Len(chunks) THEN [input_ids |-> all_input_ids, image_sizes |-> img_inx]
  ELSE LET ids == all_input_ids \o chunks[i] IN
       IF i # Len(chunks)
       THEN LET start_inx == Len(ids)
                size == image_token_count(imgs[i])
            IN interleave(chunks, imgs, i + 1, ids \o Repeat(0, size),
                          Append(img_inx, <<start_inx, start_inx + size>>))
       ELSE interleave(chunks, imgs, i + 1, ids, img_inx)

SetOf(s) == {s[i] : i \in 1..Len(s)}

\* Line 68: sorted(set(image_ids)) == [1 .. len].
ids_contiguous(image_ids) ==
  SetOf(image_ids) = 1..Cardinality(SetOf(image_ids))

\* Mutant of ids_count_matches: the tags are counted, not the distinct ids.
ids_count_matches_per_tag(image_ids, input_images) ==
  Len(image_ids) = Len(input_images)

\* Line 70: as many distinct ids as supplied images.
ids_count_matches(image_ids, input_images) ==
  Cardinality(SetOf(image_ids)) = Len(input_images)

\* Mutant of reorder_images: the index counts from the end of the list
\* (input_images[-x]).
reorder_images_from_end(input_images, image_ids) ==
  [j \in 1..Len(image_ids) |-> input_images[Len(input_images) + 1 - image_ids[j]]]

\* Line 72: input_images = [input_images[x-1] for x in image_ids].
reorder_images(input_images, image_ids) ==
  [j \in 1..Len(image_ids) |-> input_images[image_ids[j]]]

process_multi_modal_prompt(prompt, input_images) ==
  LET text == add_prefix_instruction(prompt) IN
  IF input_images = None
  THEN [ok |-> TRUE, input_ids |-> text_tokenizer(text),
        pixel_values |-> None, image_sizes |-> None]
  ELSE LET image_ids == re_findall_ids(text) IN
       IF ~ids_contiguous(image_ids) \/ ~ids_count_matches(image_ids, input_images)
       THEN [ok |-> FALSE, input_ids |-> <<>>,
             pixel_values |-> None, image_sizes |-> None]
       ELSE LET imgs == reorder_images(input_images, image_ids)
                r == interleave(prompt_chunks_of(text), imgs, 1, <<>>, <<>>)
            IN [ok |-> TRUE, input_ids |-> r.input_ids,
                pixel_values |-> imgs, image_sizes |-> r.image_sizes]

\* ----------------------------------------------------------------- collator
\* Matrices are sequences of rows; entry (r, c) of the code is m[r+1][c+1].
zeros(n, m) == [r \in 1..n |-> [c \in 1..m |-> 0]]
ones(n, m) == [r \in 1..n |-> [c \in 1..m |-> 1]]
\* Mutant of tril_ones: the diagonal is left out (tril with diagonal=-1).
tril_ones_below_diagonal(n) ==
  [r \in 1..n |-> [c \in 1..n |-> IF c < r THEN 1 ELSE 0]]
tril_ones(n) == [r \in 1..n |-> [c \in 1..n |-> IF c <= r THEN 1 ELSE 0]]
\* torch.cat(dim=-1) and torch.cat(dim=0)
cat_cols(A, B) == [r \in 1..Len(A) |-> A[r] \o B[r]]
cat_rows(A, B) == A \o B

\* Line 247: the number of tokens of one output image.
output_token_count(img_size) ==
  ((img_size[1] * img_size[2]) \div PatchSize) \div PatchSize

\* Mutant of pad_row: the padding goes to the right of the ids.
pad_row_on_the_right(temp_ids, max_l) ==
  LET temp_l == Len(temp_ids)
      pad_l == max_l - temp_l
  IN [ids |-> temp_ids \o Repeat(pad_token_id, pad_l),
      mask |-> Repeat(1, temp_l) \o Repeat(0, pad_l)]

\* Lines 224-233, one row: the padded ids and the attention vector.
pad_row(temp_ids, max_l) ==
  LET temp_l == Len(temp_ids)
      pad_l == max_l - temp_l
  IN IF pad_l = 0
     THEN [ids |-> temp_ids, mask |-> Repeat(1, max_l)]
     ELSE [ids |-> Repeat(pad_token_id, pad_l) \o temp_ids,
           mask |-> Repeat(0, pad_l) \o Repeat(1, temp_l)]

\* Mutant of shift_spans: only the start of a span is moved.
shift_spans_start_only(spans, pad_l) ==
  [k \in 1..Len(spans) |-> <<spans[k][1] + pad_l, spans[k][2]>>]

\* Lines 235-239: the spans of one row moved by its pad count.
shift_spans(spans, pad_l) ==
  [k \in 1..Len(spans) |-> <<spans[k][1] + pad_l, spans[k][2] + pad_l>>]

pad_input_ids(input_ids, image_sizes) ==
  LET max_l == MaxOf([i \in 1..Len(input_ids) |-> Len(input_ids[i])])
      rows == [i \in 1..Len(input_ids) |-> pad_row(input_ids[i], max_l)]
  IN [padded_ids |-> [i \in 1..Len(input_ids) |-> rows[i].ids],
      attention_mask |-> [i \in 1..Len(input_ids) |-> rows[i].mask],
      image_sizes |-> [i \in DOMAIN image_sizes |->
                         shift_spans(image_sizes[i], max_l - Len(input_ids[i]))]]

\* Mutant of position_row: no position for the time embedding.
position_row_without_time(mask, text_length, img_length) ==
  LET temp_l == SumOf(mask)
  IN Repeat(0, text_length - temp_l)
       \o [i \in 1..(temp_l + img_length) |-> i - 1]

\* Lines 166-169, one row.
position_row(mask, text_length, img_length) ==
  LET temp_l == SumOf(mask)
  IN Repeat(0, text_length - temp_l)
       \o [i \in 1..(temp_l + img_length + 1) |-> i - 1]

create_position(attention_mask, num_tokens_for_output_images) ==
  LET text_length == Len(attention_mask[1])
      img_length == MaxOf(num_tokens_for_output_images)
  IN [i \in 1..Len(attention_mask) |->
        position_row(attention_mask[i], text_length, img_length)]

\* Mutant of mask_row: the rows of the left padding are zeros.
mask_row_zero_pad_rows(mask, text_length, img_length) ==
  LET temp_l == SumOf(mask)
      pad_l == text_length - temp_l
      seq_len == text_length + img_length + 1
      causal == tril_ones(temp_l + 1)
      with_img_cols == cat_cols(causal, zeros(temp_l + 1, img_length))
      with_img_rows == cat_rows(with_img_cols,
                                ones(img_length, temp_l + img_length + 1))
  IN IF pad_l > 0
     THEN cat_rows(zeros(pad_l, seq_len),
                   cat_cols(zeros(temp_l + 1 + img_length, pad_l), with_img_rows))
     ELSE with_img_rows

\* Mutant of mask_row: the text and time rows see the output-image columns.
mask_row_open_image_cols(mask, text_length, img_length) ==
  LET temp_l == SumOf(mask)
      pad_l == text_length - temp_l
      seq_len == text_length + img_length + 1
      causal == tril_ones(temp_l + 1)
      with_img_cols == cat_cols(causal, ones(temp_l + 1, img_length))
      with_img_rows == cat_rows(with_img_cols,
                                ones(img_length, temp_l + img_length + 1))
  IN IF pad_l > 0
     THEN cat_rows(ones(pad_l, seq_len),
                   cat_cols(zeros(temp_l + 1 + img_length, pad_l), with_img_rows))
     ELSE with_img_rows

\* Lines 180-196, one row: the causal block, the output-image block and the
\* left padding.
mask_row(mask, text_length, img_length) ==
  LET temp_l == SumOf(mask)
      pad_l == text_length - temp_l
      seq_len == text_length + img_length + 1
      causal == tril_ones(temp_l + 1)
      with_img_cols == cat_cols(causal, zeros(temp_l + 1, img_length))
      with_img_rows == cat_rows(with_img_cols,
                                ones(img_length, temp_l + img_length + 1))
  IN IF pad_l > 0
     THEN cat_rows(ones(pad_l, seq_len),
                   cat_cols(zeros(temp_l + 1 + img_length, pad_l), with_img_rows))
     ELSE with_img_rows

\* Mutant of zero_last_cols: one column too few is zeroed.
zero_last_cols_one_short(m, pad_img_length) ==
  IF pad_img_length > 0
  THEN [r \in 1..Len(m) |->
          [c \in 1..Len(m[r]) |->
             IF c > Len(m[r]) - pad_img_length + 1 THEN 0 ELSE m[r][c]]]
  ELSE m

\* Lines 198-201: temp_mask[:, -pad_img_length:] = 0.
zero_last_cols(m, pad_img_length) ==
  IF pad_img_length > 0
  THEN [r \in 1..Len(m) |->
          [c \in 1..Len(m[r]) |->
             IF c > Len(m[r]) - pad_img_length THEN 0 ELSE m[r][c]]]
  ELSE m

create_mask(attention_mask, num_tokens_for_output_images) ==
  LET text_length == Len(attention_mask[1])
      img_length == MaxOf(num_tokens_for_output_images)
  IN [mask |-> [i \in 1..Len(attention_mask) |->
                  zero_last_cols(mask_row(attention_mask[i], text_length, img_length),
                                 img_length - num_tokens_for_output_images[i])],
      padding_images |-> [i \in 1..Len(attention_mask) |->
                  LET pad_img_length == img_length - num_tokens_for_output_images[i]
                  IN IF pad_img_length > 0 THEN Repeat(0, pad_img_length) ELSE None]]

\* Mutant of open_block: the last position of the span is left out.
open_block_one_short(m, start_inx, end_inx) ==
  [r \in 1..Len(m) |->
     [c \in 1..Len(m[r]) |->
        IF /\ start_inx <= r - 1 /\ r - 1 < end_inx - 1
           /\ start_inx <= c - 1 /\ c - 1 < end_inx - 1
        THEN 1 ELSE m[r][c]]]

\* Line 214: m[start_inx:end_inx, start_inx:end_inx] = 1.
open_block(m, start_inx, end_inx) ==
  [r \in 1..Len(m) |->
     [c \in 1..Len(m[r]) |->
        IF /\ start_inx <= r - 1 /\ r - 1 < end_inx
           /\ start_inx <= c - 1 /\ c - 1 < end_inx
        THEN 1 ELSE m[r][c]]]

RECURSIVE open_spans(_, _)
open_spans(m, spans) ==
  IF spans = <<>> THEN m
  ELSE open_spans(open_block(m, Head(spans)[1], Head(spans)[2]), Tail(spans))

adjust_attention_for_input_images(attention_mask, image_sizes) ==
  [b \in 1..Len(attention_mask) |->
     IF b \in DOMAIN image_sizes
     THEN open_spans(attention_mask[b], image_sizes[b])
     ELSE attention_mask[b]]

\* Lines 249-259: the flattened images and the spans keyed by batch row.
collect_image_sizes(mllm_inputs) ==
  [b \in {i \in 1..Len(mllm_inputs) :
            mllm_inputs[i].pixel_values # None /\ mllm_inputs[i].image_sizes # <<>>}
     |-> mllm_inputs[b].image_sizes]

\* Lines 245-247 and 263-266: the values process_mllm_input holds before it
\* opens the input-image spans.
mllm_locals(mllm_inputs, target_img_size) ==
  LET num_tokens_for_output_images ==
        [i \in 1..Len(target_img_size) |-> output_token_count(target_img_size[i])]
      input_ids == [i \in 1..Len(mllm_inputs) |-> mllm_inputs[i].input_ids]
      padded == pad_input_ids(input_ids, collect_image_sizes(mllm_inputs))
  IN [num_tokens_for_output_images |-> num_tokens_for_output_images,
      padded |-> padded,
      created |-> create_mask(padded.attention_mask, num_tokens_for_output_images)]

process_mllm_input(mllm_inputs, target_img_size) ==
  LET l == mllm_locals(mllm_inputs, target_img_size)
  IN [input_ids |-> l.padded.padded_ids,
      position_ids |-> create_position(l.padded.attention_mask,
                                       l.num_tokens_for_output_images),
      attention_mask |-> adjust_attention_for_input_images(l.created.mask,
                                                           l.padded.image_sizes),
      padding_images |-> l.created.padding_images,
      input_pixel_values |->
        Flatten([i \in 1..Len(mllm_inputs) |-> mllm_inputs[i].pixel_values]),
      input_image_sizes |-> l.padded.image_sizes]

\* ------------------------------------------------- OmniGenProcessor.__call__
\* The marker <img><|image_n|></img> the nodes and the image_cfg prompt write:
\* the words <img> and </img> around the tag.
img_marker(n) == <<Word(4), Tag(n), Word(5)>>

\* " ".join(markers of images 1..k): a blank (a word) between two markers.
RECURSIVE img_cfg_prompt(_)
img_cfg_prompt(k) ==
  IF k = 0 THEN <<>>
  ELSE IF k = 1 THEN img_marker(1)
  ELSE img_cfg_prompt(k - 1) \o <<Word(6)>> \o img_marker(k)

\* "<img><|image_1|></img>" in cur_instruction
mentions_marker_1(instruction) ==
  \E i \in 1..(Len(instruction) - 2) : SubSeq(instruction, i, i + 2) = img_marker(1)

\* input_images of __call__: None, or a list with one image list per prompt.
NoImageLists == [is_none |-> TRUE, list |-> <<>>]
ImageLists(l) == [is_none |-> FALSE, list |-> l]

\* The part of a unit the collator reads.
unit_of(r) ==
  [input_ids |-> r.input_ids, pixel_values |-> r.pixel_values,
   image_sizes |-> r.image_sizes]

NoUnit == [input_ids |-> <<>>, pixel_values |-> None, image_sizes |-> None]

\* Lines 108-111: use_img_cfg is dropped when input_images is None.
effective_use_img_cfg(input_images, use_img_cfg) ==
  IF input_images.is_none THEN FALSE ELSE use_img_cfg

\* Mutant of branches_of: without images the image_cfg branch is the
\* positive unit.
branches_of_falls_back_to_positive(cur_instruction, cur_input_images, negative, use_img_cfg, size) ==
  LET mllm_input == process_multi_modal_prompt(cur_instruction, cur_input_images)
      neg_mllm_input == process_multi_modal_prompt(negative, None)
      img_cfg ==
        IF cur_input_images # None
        THEN process_multi_modal_prompt(img_cfg_prompt(Len(cur_input_images)),
                                        cur_input_images)
        ELSE mllm_input
  IN [ok |-> /\ (cur_input_images = None => ~mentions_marker_1(cur_instruction))
             /\ mllm_input.ok
             /\ neg_mllm_input.ok
             /\ (use_img_cfg => img_cfg.ok),
      mllm_input |-> unit_of(mllm_input),
      neg_mllm_input |-> unit_of(neg_mllm_input),
      img_cfg_none |-> ~use_img_cfg,
      img_cfg_mllm_input |-> IF use_img_cfg THEN unit_of(img_cfg) ELSE NoUnit,
      size |-> size]

\* Lines 125-148, one pass of the loop: the three branches of prompt i.  The
\* image_cfg branch is the negative unit itself when the prompt has no image,
\* and None (img_cfg_none) when use_img_cfg is off.
branches_of(cur_instruction, cur_input_images, negative, use_img_cfg, size) ==
  LET mllm_input == process_multi_modal_prompt(cur_instruction, cur_input_images)
      neg_mllm_input == process_multi_modal_prompt(negative, None)
      img_cfg ==
        IF cur_input_images # None
        THEN process_multi_modal_prompt(img_cfg_prompt(Len(cur_input_images)),
                                        cur_input_images)
        ELSE neg_mllm_input
  IN [ok |-> /\ (cur_input_images = None => ~mentions_marker_1(cur_instruction))
             /\ mllm_input.ok
             /\ neg_mllm_input.ok
             /\ (use_img_cfg => img_cfg.ok),
      mllm_input |-> unit_of(mllm_input),
      neg_mllm_input |-> unit_of(neg_mllm_input),
      img_cfg_none |-> ~use_img_cfg,
      img_cfg_mllm_input |-> IF use_img_cfg THEN unit_of(img_cfg) ELSE NoUnit,
      size |-> size]

\* Lines 116-148: input_data, or the failure of one of the assertions.
input_data_of(a) ==
  LET use_img_cfg == effective_use_img_cfg(a.input_images, a.use_img_cfg)
      fs == [i \in 1..Len(a.instructions) |->
               branches_of(a.instructions[i],
                           IF a.input_images.is_none THEN None
                           ELSE a.input_images.list[i],
                           a.negative_prompt[i], use_img_cfg,
                           <<a.height, a.width>>)]
  IN [ok |-> \A i \in 1..Len(fs) : fs[i].ok, features |-> fs]

\* ------------------------------------------------------- the two collators
Column(fs, field) == [i \in 1..Len(fs) |-> fs[i][field]]

\* Mutant of combined_units: the image_cfg units come before the negative ones.
combined_units_img_cfg_first(fs) ==
  IF ~fs[1].img_cfg_none
  THEN Column(fs, "mllm_input") \o Column(fs, "img_cfg_mllm_input")
         \o Column(fs, "neg_mllm_input")
  ELSE Column(fs, "mllm_input") \o Column(fs, "neg_mllm_input")

\* OmniGenCollator.__call__, lines 279-284: the units of all branches.
combined_units(fs) ==
  IF ~fs[1].img_cfg_none
  THEN Column(fs, "mllm_input") \o Column(fs, "neg_mllm_input")
         \o Column(fs, "img_cfg_mllm_input")
  ELSE Column(fs, "mllm_input") \o Column(fs, "neg_mllm_input")

combined_sizes(fs) ==
  IF ~fs[1].img_cfg_none
  THEN Column(fs, "size") \o Column(fs, "size") \o Column(fs, "size")
  ELSE Column(fs, "size") \o Column(fs, "size")

OmniGenCollator(fs) == process_mllm_input(combined_units(fs), combined_sizes(fs))

\* Mutant of separate_branch: every branch is collated from the positive units.
separate_branch_always_positive(fs, field) == process_mllm_input(Column(fs, "mllm_input"), Column(fs, "size"))

\* OmniGenSeparateCollator.__call__: one process_mllm_input per branch.
separate_branch(fs, field) == process_mllm_input(Column(fs, field), Column(fs, "size"))

OmniGenSeparateCollator(fs) ==
  <<separate_branch(fs, "mllm_input"), separate_branch(fs, "neg_mllm_input")>>
    \o (IF ~fs[1].img_cfg_none
        THEN <<separate_branch(fs, "img_cfg_mllm_input")>> ELSE <<>>)

\* ------------------------------------------- OmniGenProcessor (the node)
\* Lines 295-304: [] for a condition without images, None when no condition
\* has images.
final_images_of(images) ==
  IF \A i \in 1..Len(images) : images[i] = None
  THEN NoImageLists ELSE ImageLists(images)

\* Lines 308-313: the first image of the first condition that has one.
first_image(final_images) ==
  LET i == CHOOSE i \in 1..Len(final_images.list) :
             /\ final_images.list[i] # <<>>
             /\ \A j \in 1..(i - 1) : final_images.list[j] = <<>>
  IN final_images.list[i][1]

\* Lines 281-320: the arguments run passes to the processor; ok is the
\* assertion of line 307.
processor_node_args(conditions, separate_cfg_infer, size_from_first_image, width, height) ==
  LET final_images == final_images_of(Column(conditions, "images"))
      sized == size_from_first_image /\ ~final_images.is_none
  IN [ok |-> size_from_first_image => ~final_images.is_none,
      instructions |-> Column(conditions, "positive"),
      input_images |-> final_images,
      negative_prompt |-> Column(conditions, "negative"),
      use_img_cfg |-> ~final_images.is_none,
      separate_cfg_input |-> separate_cfg_infer,
      height |-> IF sized THEN first_image(final_images).h ELSE height,
      width |-> IF sized THEN first_image(final_images).w ELSE width]

\* -------------------------------------------------- OmniGenPipelineWrapper
\* Mutant of num_cfg_of: the image-guidance branch is always assumed.
num_cfg_always_two(conditioner) == 2

\* Lines 81 and 103.
num_cfg_of(conditioner) == IF ~conditioner.input_images.is_none THEN 2 ELSE 1

\* Lines 112-113: num_prompt noise rows, repeated once per branch.  A row is
\* named by the index of its noise sample.
latents_of(conditioner) ==
  Flatten([b \in 1..(1 + num_cfg_of(conditioner)) |->
             [k \in 1..conditioner.num_conditions |-> k]])

\* Mutant of vae_encode_calls: only the images of the first batch are encoded.
vae_encode_calls_first_batch_only(conditioner) ==
  conditioner.data[1].input_pixel_values

\* Lines 115-128: the images handed to vae_encode, in call order.
vae_encode_calls(conditioner) ==
  Flatten([b \in 1..Len(conditioner.data) |-> conditioner.data[b].input_pixel_values])

\* Mutant of chunk_first: the last chunk is kept.
chunk_last(samples, chunks) ==
  LET size == (Len(samples) + chunks - 1) \div chunks
  IN SubSeq(samples, Len(samples) - size + 1, Len(samples))

\* Line 171: samples.chunk(chunks, dim=0)[0].
chunk_first(samples, chunks) ==
  LET size == (Len(samples) + chunks - 1) \div chunks
  IN SubSeq(samples, 1, IF size < Len(samples) THEN size ELSE Len(samples))

\* OmniGenScheduler: one step calls the forward function once on the whole
\* batch and advances every row.
scheduler_step(samples) ==
  [r \in 1..Len(samples) |->
     [row |-> samples[r].row, noise |-> samples[r].noise, steps |-> samples[r].steps + 1]]

\* The parameter groups the wrapper tells apart by name, and where they are.
ModelParts == {"layers.0", "layers.1", "other"}
Whole(device) == [p \in ModelParts |-> device]

\* Lines 159-166: every layer but the first to the host, the rest to the device.
offload_layers(where) ==
  [p \in ModelParts |-> IF p = "layers.1" THEN "cpu" ELSE "cuda"]

\* Mutant of placement_on_return: the model goes back to the host only when
\* move_to_ram asks for it.
placement_on_return_ram_only(where, move_to_ram, model_cpu_offload) ==
  IF move_to_ram THEN Whole("cpu") ELSE where

\* Lines 174-176.
placement_on_return(where, move_to_ram, model_cpu_offload) ==
  IF move_to_ram \/ model_cpu_offload THEN Whole("cpu") ELSE where

\* ------------------------------------------------ the node entry points
\* The image inputs of a node entry point (image_1..image_3).
ImageSlots == 3

\* What a node prompt is made of: plain text, "{image_n}", a bare "image_n",
\* and the marker validate_image writes.
NodeWord == [kind |-> "word", n |-> 0]
Curly(n) == [kind |-> "curly", n |-> n]
Bare(n) == [kind |-> "bare", n |-> n]
Marker(n) == [kind |-> "marker", n |-> n]
NodeItems == {NodeWord} \cup {Curly(n) : n \in 1..ImageSlots} \cup {Bare(n) : n \in 1..ImageSlots}

str_contains(prompt, item) == \E i \in 1..Len(prompt) : prompt[i] = item
str_replace(prompt, from, to) ==
  [i \in 1..Len(prompt) |-> IF prompt[i] = from THEN to ELSE prompt[i]]

\* Mutant of validate_image: only the "{image_n}" form counts as a mention.
validate_image_curly_only(idx, prompt) ==
  IF str_contains(prompt, Curly(idx))
  THEN [ok |-> TRUE, prompt |-> str_replace(prompt, Curly(idx), Marker(idx))]
  ELSE [ok |-> FALSE, prompt |-> prompt]

\* validate_image, lines 36-43: the image of slot idx must be mentioned in the
\* prompt, and the mention becomes the marker.
validate_image(idx, prompt) ==
  IF str_contains(prompt, Curly(idx))
  THEN [ok |-> TRUE, prompt |-> str_replace(prompt, Curly(idx), Marker(idx))]
  ELSE IF str_contains(prompt, Bare(idx))
       THEN [ok |-> TRUE, prompt |-> str_replace(prompt, Bare(idx), Marker(idx))]
       ELSE [ok |-> FALSE, prompt |-> prompt]

\* The slot checks both entry points start with, from slot idx on: a supplied
\* slot needs the slot before it and a mention in the prompt.
RECURSIVE validate_slots(_, _, _, _)
validate_slots(idx, prompt, slots, input_images) ==
  IF idx > ImageSlots
  THEN [ok |-> TRUE, error |-> "none", prompt |-> prompt, input_images |-> input_images]
  ELSE IF ~slots[idx] THEN validate_slots(idx + 1, prompt, slots, input_images)
  ELSE IF idx > 1 /\ ~slots[idx - 1]
       THEN [ok |-> FALSE, error |-> "slot_order", prompt |-> prompt,
             input_images |-> input_images]
       ELSE LET r == validate_image(idx, prompt)
            IN IF ~r.ok
               THEN [ok |-> FALSE, error |-> "not_mentioned", prompt |-> prompt,
                     input_images |-> input_images]
               ELSE validate_slots(idx + 1, r.prompt, slots, Append(input_images, idx))

\* ------------------------------------------------------ the model cache
\* The dtype choices of the nodes; "int8" asks for the quantized model.
dtype_list == {"default", "int8"}
quantization_of(dtype) == dtype = "int8"

\* A loaded model (the n-th load) and the reference that holds none.
Model(n, quantization) == [id |-> n, quantization |-> quantization]
NoModel == [id |-> 0, quantization |-> FALSE]

\* Mutant of needs_load: a cached model is reused whatever its quantization.
needs_load_only_when_none(cached, quantization) == cached = NoModel

\* self.pipe is None or self.pipe.quantization != quantization
needs_load(cached, quantization) ==
  cached = NoModel \/ cached.quantization # quantization

\* The model the run uses: a new one from from_pretrained, or the cached one.
model_for(cached, quantization, loads) ==
  IF needs_load(cached, quantization) THEN Model(loads + 1, quantization) ELSE cached

\* if not cache_model: self.pipe = None
cached_after(used, cache_model) == IF cache_model THEN used ELSE NoModel

\* -------------------------------------------------------------------- state
VARIABLES
  pc,               \* "build": units are being tokenized; "failed": a prompt was
                    \* rejected; "done": the collator has returned
  features,         \* the (prompt, images, output size) of every accepted unit
  mllm_inputs,      \* the units returned by process_multi_modal_prompt
  raised,           \* the (prompt, images) of the rejected call, if any
  locals,           \* inside process_mllm_input: the attention vectors of
                    \* pad_input_ids and the mask returned by create_mask
  out               \* the collator's result

VARIABLES
  ppc,              \* where a generation request is: "idle", "called", "failed",
                    \* "compared", "conditioned", "prepared", "on_device",
                    \* "sampling", "returned", "error"
  call,             \* the arguments of OmniGenProcessor.__call__
  cond,             \* the conditioner the processor returned
  other,            \* what the same call returns in the other collator mode
  wrapper,          \* the locals of OmniGenPipelineWrapper.__call__
  placement,        \* the device of every parameter group of the model
  node,             \* one run of a node entry point: its inputs and its outcome
  models            \* the model each sampling node keeps between runs, the
                    \* models loaded so far, and the last run

vars == <<pc, features, mllm_inputs, raised, locals, out,
          ppc, call, cond, other, wrapper, placement, node, models>>

batch_vars == <<pc, features, mllm_inputs, raised, locals, out>>
pipe_vars == <<ppc, call, cond, other, wrapper, placement>>

NoOutput ==
  [input_ids |-> <<>>, position_ids |-> <<>>, attention_mask |-> <<>>,
   padding_images |-> <<>>, input_pixel_values |-> <<>>,
   input_image_sizes |-> <<>>]

NoLocals == [attention_mask |-> <<>>, created_mask |-> <<>>]

NoNode ==
  [entry |-> "none", prompt |-> <<>>, slots |-> [n \in 1..ImageSlots |-> FALSE],
   status |-> "idle", error |-> "none", out_prompt |-> <<>>,
   input_images |-> None, model_loaded |-> FALSE]

NoRun ==
  [node |-> "none", dtype |-> "default", cache_model |-> FALSE, status |-> "none",
   before |-> NoModel, loaded |-> FALSE, used |-> NoModel]

\* self.pipe of OmniGenSampler and self.model of DZ_OmniGenV1 after __init__.
NoModels ==
  [sampler |-> NoModel, dz |-> NoModel, loads |-> 0, calls |-> 0, last |-> NoRun]

NoCall ==
  [instructions |-> <<>>, input_images |-> NoImageLists, negative_prompt |-> <<>>,
   use_img_cfg |-> FALSE, separate_cfg_input |-> FALSE, height |-> 0, width |-> 0]

\* data holds the collator's result: the one batch of the combined collator,
\* or one batch per branch of the separate collator.
NoCond ==
  [data |-> <<>>, separate_cfg_infer |-> FALSE, input_images |-> NoImageLists,
   num_conditions |-> 0, height |-> 0, width |-> 0]

NoWrapper ==
  [model_cpu_offload |-> FALSE, move_to_ram |-> FALSE, num_inference_steps |-> 0,
   latents |-> <<>>, vae_calls |-> <<>>, step |-> 0, samples |-> <<>>,
   result |-> <<>>]

Init ==
  /\ pc = "build"
  /\ features = <<>>
  /\ mllm_inputs = <<>>
  /\ raised = <<>>
  /\ locals = NoLocals
  /\ out = NoOutput
  /\ ppc = "idle"
  /\ call = NoCall
  /\ cond = NoCond
  /\ other = NoCond
  /\ wrapper = NoWrapper
  /\ placement = Whole("cpu")
  /\ node = NoNode
  /\ models = NoModels

\* Prompts tokenized into a batch: without images, with one image of either
\* size, with two images named in reverse order, with one image named twice.
BatchPrompts ==
  { [prompt |-> <<>>, images |-> None],
    [prompt |-> <<Word(3), Word(3)>>, images |-> None],
    [prompt |-> <<Tag(1)>>, images |-> <<[h |-> 16, w |-> 16]>>],
    [prompt |-> <<Word(3), Tag(1)>>, images |-> <<[h |-> 32, w |-> 16]>>],
    [prompt |-> <<Tag(2), Tag(1)>>,
     images |-> <<[h |-> 16, w |-> 16], [h |-> 32, w |-> 16]>>],
    [prompt |-> <<Tag(1), Tag(1)>>, images |-> <<[h |-> 32, w |-> 16]>>] }

\* One call of process_multi_modal_prompt: the unit joins the batch, or the
\* assertion propagates and nothing of the batch is left.
Tokenize(prompt, images, size) ==
  /\ pc = "build"
  /\ LET r == process_multi_modal_prompt(prompt, images) IN
     IF r.ok
     THEN /\ features' = Append(features,
                                [prompt |-> prompt, images |-> images, size |-> size])
          /\ mllm_inputs' = Append(mllm_inputs,
                                   [input_ids |-> r.input_ids,
                                    pixel_values |-> r.pixel_values,
                                    image_sizes |-> r.image_sizes])
          /\ UNCHANGED <<pc, raised>>
     ELSE /\ pc' = "failed"
          /\ raised' = <<[prompt |-> prompt, images |-> images]>>
          /\ features' = <<>>
          /\ mllm_inputs' = <<>>
  /\ UNCHANGED <<locals, out>>
  /\ UNCHANGED <<pipe_vars, node, models>>

AddUnit ==
  /\ Len(features) < MaxBatch
  /\ \E p \in BatchPrompts, size \in TargetSizes :
       Tokenize(p.prompt, p.images, size)

Collate ==
  /\ pc = "build"
  /\ Len(mllm_inputs) >= 1
  /\ LET target_img_size == [i \in 1..Len(features) |-> features[i].size]
         l == mllm_locals(mllm_inputs, target_img_size)
     IN /\ out' = process_mllm_input(mllm_inputs, target_img_size)
        /\ locals' = [attention_mask |-> l.padded.attention_mask,
                      created_mask |-> l.created.mask]
  /\ pc' = "done"
  /\ UNCHANGED <<features, mllm_inputs, raised>>
  /\ UNCHANGED <<pipe_vars, node, models>>

Next == AddUnit \/ Collate

Spec == Init /\ [][Next]_vars

\* The tokenizer alone, on every prompt and image list within the bounds.
TokenizeAny ==
  /\ features = <<>>
  /\ \E prompt \in SeqsUpTo(Items, MaxText),
        images \in SeqsUpTo(Images, MaxImages),
        size \in TargetSizes :
       Tokenize(prompt, images, size)

NextPrompt == TokenizeAny

SpecPrompt == Init /\ [][NextPrompt]_vars

\* ------------------------------------------------- a generation request
\* Conditions as OmniGenConditioner returns them: a prompt without images,
\* with one image, with one image named twice, with two images named in
\* reverse order; and a prompt that names image 1 without having one.
img16 == [h |-> 16, w |-> 16]
img32 == [h |-> 32, w |-> 16]

NodeConditions ==
  { [positive |-> <<Word(3)>>, negative |-> <<Word(7)>>, images |-> None],
    [positive |-> img_marker(1), negative |-> <<Word(7), Word(8)>>,
     images |-> <<img16>>],
    [positive |-> img_marker(1) \o img_marker(1), negative |-> <<Word(7)>>,
     images |-> <<img32>>],
    [positive |-> img_marker(2) \o img_marker(1), negative |-> <<Word(8)>>,
     images |-> <<img16, img32>>] }

PipeConditions ==
  NodeConditions \cup
  { [positive |-> img_marker(1), negative |-> <<Word(7)>>, images |-> None] }

\* The number of condition inputs of the node (condition_1..condition_3).
NodeSlots == 3

NonEmptySeqsUpTo(S, n) == SeqsUpTo(S, n) \ {<<>>}

\* Lines 116-152 of the processor: the collator's result, or the failure of
\* an assertion.  input_data is built once and then collated.
processor_call(a) ==
  CHOOSE r \in { IF ~d.ok THEN [ok |-> FALSE, data |-> <<>>]
                 ELSE [ok |-> TRUE,
                       data |-> IF a.separate_cfg_input
                                THEN OmniGenSeparateCollator(d.features)
                                ELSE <<OmniGenCollator(d.features)>>] :
                 d \in {input_data_of(a)} } : TRUE

call_args(a) ==
  [instructions |-> a.instructions, input_images |-> a.input_images,
   negative_prompt |-> a.negative_prompt, use_img_cfg |-> a.use_img_cfg,
   separate_cfg_input |-> a.separate_cfg_input,
   height |-> a.height, width |-> a.width]

\* OmniGenProcessor.__call__ called directly.
ProcessorCall ==
  /\ ppc = "idle"
  /\ \E cs \in NonEmptySeqsUpTo(PipeConditions, MaxBatch),
        with_images \in BOOLEAN, use_img_cfg \in BOOLEAN,
        separate_cfg_input \in BOOLEAN, size \in TargetSizes :
       LET a == [instructions |-> Column(cs, "positive"),
                 input_images |-> IF with_images
                                  THEN ImageLists(Column(cs, "images"))
                                  ELSE NoImageLists,
                 negative_prompt |-> Column(cs, "negative"),
                 use_img_cfg |-> use_img_cfg,
                 separate_cfg_input |-> separate_cfg_input,
                 height |-> size[1], width |-> size[2]]
       IN \E r \in {processor_call(a)} :
            /\ call' = a
            /\ ppc' = IF r.ok THEN "called" ELSE "failed"
            /\ cond' = [NoCond EXCEPT !.data = r.data]
  /\ UNCHANGED <<other, wrapper, placement>>
  /\ UNCHANGED <<batch_vars, node, models>>

\* The same call once more, with the other collator.
ProcessorCallOtherMode ==
  /\ ppc = "called"
  /\ LET a == [call EXCEPT !.separate_cfg_input = ~call.separate_cfg_input]
     IN other' = [NoCond EXCEPT !.data = processor_call(a).data]
  /\ ppc' = "compared"
  /\ UNCHANGED <<call, cond, wrapper, placement>>
  /\ UNCHANGED <<batch_vars, node, models>>

\* OmniGenProcessor.run of the node, lines 280-327.
ProcessorNodeRun ==
  /\ ppc = "idle"
  /\ \E cs \in NonEmptySeqsUpTo(NodeConditions, NodeSlots),
        separate_cfg_infer \in BOOLEAN, size_from_first_image \in BOOLEAN,
        size \in TargetSizes :
       LET a == processor_node_args(cs, separate_cfg_infer, size_from_first_image,
                                    size[2], size[1])
       IN \E r \in {IF a.ok THEN processor_call(a) ELSE [ok |-> FALSE, data |-> <<>>]} :
            /\ call' = IF a.ok THEN call_args(a) ELSE NoCall
            /\ ppc' = IF r.ok THEN "conditioned" ELSE "failed"
            /\ cond' = IF r.ok
                       THEN [data |-> r.data,
                             separate_cfg_infer |-> separate_cfg_infer,
                             input_images |-> a.input_images,
                             num_conditions |-> Len(cs),
                             height |-> a.height, width |-> a.width]
                       ELSE NoCond
  /\ UNCHANGED <<other, wrapper, placement>>
  /\ UNCHANGED <<batch_vars, node, models>>

\* Lines 81-152 of the wrapper: the offload switch, the latents and the VAE
\* encoding.  The model is where the previous request left it.
W_Prepare ==
  /\ ppc = "conditioned"
  /\ \E offload_model \in BOOLEAN, move_to_ram \in BOOLEAN,
        before \in {"cpu", "cuda"} :
       /\ wrapper' = [NoWrapper EXCEPT
                        !.model_cpu_offload = offload_model,
                        !.move_to_ram = move_to_ram,
                        !.num_inference_steps = MaxSteps,
                        !.latents = latents_of(cond),
                        !.vae_calls = vae_encode_calls(cond)]
       /\ placement' = Whole(before)
  /\ ppc' = "prepared"
  /\ UNCHANGED <<call, cond, other>>
  /\ UNCHANGED <<batch_vars, node, models>>

\* Line 156: self.model.to(self.device).
W_ToDevice ==
  /\ ppc = "prepared"
  /\ placement' = Whole("cuda")
  /\ ppc' = "on_device"
  /\ UNCHANGED <<call, cond, other, wrapper>>
  /\ UNCHANGED <<batch_vars, node, models>>

\* Line 156 runs out of device memory: some groups have moved, one has not,
\* and the error leaves the call.
W_ToDeviceFails ==
  /\ ppc = "prepared"
  /\ \E moved \in SUBSET ModelParts :
       /\ \E p \in ModelParts \ moved : placement[p] = "cpu"
       /\ placement' = [p \in ModelParts |->
                          IF p \in moved THEN "cuda" ELSE placement[p]]
  /\ ppc' = "error"
  /\ UNCHANGED <<call, cond, other, wrapper>>
  /\ UNCHANGED <<batch_vars, node, models>>

\* Lines 159-166, and the scheduler's start.
W_OffloadLayers ==
  /\ ppc = "on_device"
  /\ placement' = IF wrapper.model_cpu_offload
                  THEN offload_layers(placement) ELSE placement
  /\ wrapper' = [wrapper EXCEPT
                   !.samples = [r \in 1..Len(wrapper.latents) |->
                                  [row |-> r, noise |-> wrapper.latents[r],
                                   steps |-> 0]]]
  /\ ppc' = "sampling"
  /\ UNCHANGED <<call, cond, other>>
  /\ UNCHANGED <<batch_vars, node, models>>

\* One denoising step.  With cpu offload the forward pass loads and evicts
\* layers, and leaves each layer group on either side.
W_Step ==
  /\ ppc = "sampling"
  /\ wrapper.step < wrapper.num_inference_steps
  /\ wrapper' = [wrapper EXCEPT !.step = @ + 1,
                                !.samples = scheduler_step(@)]
  /\ IF wrapper.model_cpu_offload
     THEN \E l0 \in {"cpu", "cuda"}, l1 \in {"cpu", "cuda"} :
            placement' = [placement EXCEPT !["layers.0"] = l0, !["layers.1"] = l1]
     ELSE UNCHANGED placement
  /\ UNCHANGED <<ppc, call, cond, other>>
  /\ UNCHANGED <<batch_vars, node, models>>

\* A denoising step runs out of memory: the error leaves the call with the
\* model where the step found it or put it.
W_StepFails ==
  /\ ppc = "sampling"
  /\ wrapper.step < wrapper.num_inference_steps
  /\ IF wrapper.model_cpu_offload
     THEN \E l0 \in {"cpu", "cuda"}, l1 \in {"cpu", "cuda"} :
            placement' = [placement EXCEPT !["layers.0"] = l0, !["layers.1"] = l1]
     ELSE UNCHANGED placement
  /\ ppc' = "error"
  /\ UNCHANGED <<call, cond, other, wrapper>>
  /\ UNCHANGED <<batch_vars, node, models>>

\* Lines 171-181: the first chunk of the samples, and the model back to the
\* host if asked.
W_Return ==
  /\ ppc = "sampling"
  /\ wrapper.step = wrapper.num_inference_steps
  /\ wrapper' = [wrapper EXCEPT
                   !.result = chunk_first(wrapper.samples, 1 + num_cfg_of(cond))]
  /\ placement' = placement_on_return(placement, wrapper.move_to_ram,
                                      wrapper.model_cpu_offload)
  /\ ppc' = "returned"
  /\ UNCHANGED <<call, cond, other>>
  /\ UNCHANGED <<batch_vars, node, models>>

\* ---------------------------------------------------- a node entry point
\* OmniGenConditioner.run: the checks, then the condition is returned.
ConditionerRun ==
  /\ node.status = "idle"
  /\ \E prompt \in SeqsUpTo(NodeItems, MaxText), slots \in [1..ImageSlots -> BOOLEAN] :
       LET r == validate_slots(1, prompt, slots, <<>>)
       IN node' = [entry |-> "OmniGenConditioner.run", prompt |-> prompt,
                   slots |-> slots,
                   status |-> IF r.ok THEN "returned" ELSE "rejected",
                   error |-> r.error, out_prompt |-> r.prompt,
                   input_images |-> r.input_images, model_loaded |-> FALSE]
  /\ UNCHANGED <<batch_vars, pipe_vars, models>>

\* DZ_OmniGenV1.run_omnigen: the checks, then the model is loaded unless the
\* cached one fits, the pipeline runs and returns the samples or raises, and
\* the cache is dropped unless cache_model asks to keep it.
run_omnigen(prompt, slots, dtype, cache_model, generated) ==
  LET r == validate_slots(1, prompt, slots, <<>>)
      quantization == quantization_of(dtype)
      load == r.ok /\ needs_load(models.dz, quantization)
      used == IF r.ok THEN model_for(models.dz, quantization, models.loads)
              ELSE NoModel
      status == IF ~r.ok THEN "rejected"
                ELSE IF generated THEN "returned" ELSE "pipe_error"
  IN /\ node' = [entry |-> "DZ_OmniGenV1.run_omnigen", prompt |-> prompt,
                 slots |-> slots, status |-> status,
                 error |-> r.error, out_prompt |-> r.prompt,
                 input_images |-> r.input_images, model_loaded |-> load]
     /\ models' = [models EXCEPT
                     !.dz = IF ~r.ok THEN @
                            ELSE IF generated THEN cached_after(used, cache_model)
                            ELSE used,
                     !.loads = IF load THEN @ + 1 ELSE @,
                     !.calls = @ + 1,
                     !.last = [node |-> "dz", dtype |-> dtype,
                               cache_model |-> cache_model, status |-> status,
                               before |-> models.dz, loaded |-> load,
                               used |-> used]]
     /\ UNCHANGED <<batch_vars, pipe_vars>>

RunOmnigen ==
  /\ node.status = "idle"
  /\ \E prompt \in SeqsUpTo(NodeItems, MaxText), slots \in [1..ImageSlots -> BOOLEAN],
        dtype \in dtype_list, cache_model \in BOOLEAN, generated \in BOOLEAN :
       run_omnigen(prompt, slots, dtype, cache_model, generated)

NextNode == ConditionerRun \/ RunOmnigen

SpecNode == Init /\ [][NextNode]_vars

\* ----------------------------------------- runs of the sampling nodes
\* OmniGenSampler.run: the pipeline is loaded unless the cached one fits, it
\* is called (offload_model is left at its default) and returns or raises,
\* and the cache is dropped unless cache_model asks to keep it.  A new model
\* starts in host memory; a call that raises can leave it anywhere.
SamplerRun ==
  /\ models.calls < MaxCalls
  /\ \E dtype \in dtype_list, cache_model \in BOOLEAN, move_to_ram \in BOOLEAN,
        generated \in BOOLEAN, left \in [ModelParts -> {"cpu", "cuda"}] :
       LET quantization == quantization_of(dtype)
           load == needs_load(models.sampler, quantization)
           used == model_for(models.sampler, quantization, models.loads)
           start == IF load THEN Whole("cpu") ELSE placement
       IN /\ generated => left = placement_on_return(Whole("cuda"), move_to_ram, FALSE)
          /\ (~generated /\ start = Whole("cuda")) => left = start
          /\ placement' = left
          /\ models' = [models EXCEPT
                          !.sampler = IF generated THEN cached_after(used, cache_model)
                                      ELSE used,
                          !.loads = IF load THEN @ + 1 ELSE @,
                          !.calls = @ + 1,
                          !.last = [node |-> "sampler", dtype |-> dtype,
                                    cache_model |-> cache_model,
                                    status |-> IF generated THEN "returned"
                                               ELSE "pipe_error",
                                    before |-> models.sampler, loaded |-> load,
                                    used |-> used]]
  /\ UNCHANGED <<ppc, call, cond, other, wrapper>>
  /\ UNCHANGED <<batch_vars, node>>

\* DZ_OmniGenV1.run_omnigen run again on the same node.
RunOmnigenAgain ==
  /\ models.calls < MaxCalls
  /\ \E prompt \in {<<Curly(1)>>, <<NodeWord>>},
        dtype \in dtype_list, cache_model \in BOOLEAN, generated \in BOOLEAN :
       run_omnigen(prompt, [n \in 1..ImageSlots |-> n = 1], dtype, cache_model,
                   generated)

NextCache == SamplerRun \/ RunOmnigenAgain

SpecCache == Init /\ [][NextCache]_vars

NextPipe ==
  \/ ProcessorCall
  \/ ProcessorCallOtherMode
  \/ ProcessorNodeRun
  \/ W_Prepare
  \/ W_ToDevice
  \/ W_ToDeviceFails
  \/ W_OffloadLayers
  \/ W_Step
  \/ W_StepFails
  \/ W_Return

SpecPipe == Init /\ [][NextPipe]_vars

\* =================================================================== claims
\* What the claims say, stated on the prompts and images themselves.
TagPositions(prompt) == {i \in 1..Len(prompt) : prompt[i].tag}
PromptTagIds(prompt) == {prompt[i].n : i \in TagPositions(prompt)}

\* The indices of the tags of a prompt, in text order.
RECURSIVE TagsInOrder(_)
TagsInOrder(prompt) ==
  IF prompt = <<>> THEN <<>>
  ELSE IF Head(prompt).tag THEN <<Head(prompt).n>> \o TagsInOrder(Tail(prompt))
       ELSE TagsInOrder(Tail(prompt))

\* The indices found are exactly {1..K} and K images were supplied.
ExactIndexSet(prompt, images) ==
  \E K \in 0..Len(prompt) : PromptTagIds(prompt) = 1..K /\ K = Len(images)

WithImages(i) == features[i].images # <<>>

\* C1: a call with a non-empty image list returns a unit if and only if the
\* indices of its tags are exactly {1..K} with K the number of images; a call
\* that names the same index twice is not rejected for that.
C1_FailsUnlessExactIndexSet ==
  /\ Len(mllm_inputs) = Len(features)
  /\ \A i \in 1..Len(features) :
       WithImages(i) => ExactIndexSet(features[i].prompt, features[i].images)
  /\ pc = "failed" =>
       /\ raised[1].images # <<>>
       /\ ~ExactIndexSet(raised[1].prompt, raised[1].images)

\* An accepted prompt with images that names one index twice.
C1_Witness ==
  \E i \in 1..Len(features) :
    /\ WithImages(i)
    /\ Cardinality(TagPositions(features[i].prompt))
         > Cardinality(PromptTagIds(features[i].prompt))

\* C2: pixel_values has one entry per tag, and entry j is the supplied image
\* whose index the j-th tag of the text carries.
C2_PixelValuesFollowTagOrder ==
  \A i \in 1..Len(features) :
    WithImages(i) =>
      LET tags == TagsInOrder(features[i].prompt)
          pv == mllm_inputs[i].pixel_values
      IN /\ Len(pv) = Len(tags)
         /\ \A j \in 1..Len(tags) : pv[j] = features[i].images[tags[j]]

\* Two different images named in the reverse of the order they were passed.
C2_Witness ==
  \E i \in 1..Len(features) :
    /\ Len(features[i].images) = 2
    /\ features[i].images[1] # features[i].images[2]
    /\ TagsInOrder(features[i].prompt) = <<2, 1>>
    /\ mllm_inputs[i].pixel_values = <<features[i].images[2], features[i].images[1]>>

\* floor(H/16) * floor(W/16)
PatchGrid(img) == (img.h \div 16) * (img.w \div 16)

\* The tokens accumulated when the k-th image is about to be inserted: chunks
\* 1..k and the placeholders of images 1..k-1.
OffsetBefore(chunks, imgs, k) ==
  SumOf([j \in 1..k |-> Len(chunks[j])])
    + SumOf([j \in 1..(k-1) |-> PatchGrid(imgs[j])])

\* C3: the ids are the tokenized chunks in order, and between chunk k and
\* chunk k+1 stand exactly floor(H/16)*floor(W/16) zeros for the k-th image,
\* whose span is (offset_before, offset_before + size).
C3_PlaceholdersBetweenChunks ==
  \A i \in 1..Len(features) :
    WithImages(i) =>
      LET chunks == prompt_chunks_of(add_prefix_instruction(features[i].prompt))
          imgs == mllm_inputs[i].pixel_values
          ids == mllm_inputs[i].input_ids
          spans == mllm_inputs[i].image_sizes
          n == Len(chunks) - 1
      IN /\ Len(spans) = n
         /\ Len(imgs) = n
         /\ SubSeq(ids, 1, Len(chunks[1])) = chunks[1]
         /\ \A k \in 1..n :
              LET start == OffsetBefore(chunks, imgs, k)
                  size == PatchGrid(imgs[k])
              IN /\ spans[k] = <<start, start + size>>
                 /\ \A t \in start..(start + size - 1) : ids[t + 1] = 0
                 /\ SubSeq(ids, start + size + 1,
                           start + size + Len(chunks[k + 1])) = chunks[k + 1]
         /\ Len(ids) = OffsetBefore(chunks, imgs, n + 1)

\* Two images of different sizes, each with its own run of placeholders.
C3_Witness ==
  \E i \in 1..Len(features) :
    /\ Len(mllm_inputs[i].image_sizes) = 2
    /\ PatchGrid(mllm_inputs[i].pixel_values[1]) = 2
    /\ PatchGrid(mllm_inputs[i].pixel_values[2]) = 1
    /\ mllm_inputs[i].image_sizes = <<<<2, 4>>, <<4, 5>>>>

\* ------------------------------------------------ the collator's batch rows
Rows == 1..Len(mllm_inputs)
RealLen(i) == Len(mllm_inputs[i].input_ids)
\* max_len: the longest unit's length
LongestLen == CHOOSE m \in {RealLen(i) : i \in Rows} : \A j \in Rows : RealLen(j) <= m
PadCount(i) == LongestLen - RealLen(i)
\* the number of tokens of row i's output image
OutTokens(i) == (features[i].size[1] * features[i].size[2]) \div 256
\* img_length: the batch maximum
ImgLength == CHOOSE m \in {OutTokens(i) : i \in Rows} : \A j \in Rows : OutTokens(j) <= m
SeqLen == LongestLen + ImgLength + 1
\* mask[r][c] of batch row i, 0-based as in the code
M(i, r, c) == out.attention_mask[i][r + 1][c + 1]
\* r and c both lie inside one input-image span reported for row i
InOneSpan(i, r, c) ==
  /\ i \in DOMAIN out.input_image_sizes
  /\ \E k \in 1..Len(out.input_image_sizes[i]) :
       LET sp == out.input_image_sizes[i][k]
       IN sp[1] <= r /\ r < sp[2] /\ sp[1] <= c /\ c < sp[2]

\* C4: every row is the pad token (max_len - L) times and then the unit's
\* tokens, and its attention vector is (max_len - L) zeros and then L ones.
C4_LeftPadToLongest ==
  pc = "done" =>
    /\ Len(out.input_ids) = Len(mllm_inputs)
    /\ \A i \in Rows :
         /\ out.input_ids[i]
              = Repeat(pad_token_id, PadCount(i)) \o mllm_inputs[i].input_ids
         /\ locals.attention_mask[i]
              = Repeat(0, PadCount(i)) \o Repeat(1, RealLen(i))

\* A batch with a row shorter than the longest.
C4_Witness ==
  /\ pc = "done"
  /\ \E i \in Rows :
       /\ PadCount(i) > 0
       /\ out.input_ids[i][1] = pad_token_id
       /\ locals.attention_mask[i][1] = 0

\* C5: every span (s, e) of a row comes back as (s + pad, e + pad), so its
\* length is kept.
C5_SpansShiftByPad ==
  pc = "done" =>
    /\ DOMAIN out.input_image_sizes = {i \in Rows : WithImages(i)}
    /\ \A i \in DOMAIN out.input_image_sizes :
         /\ Len(out.input_image_sizes[i]) = Len(mllm_inputs[i].image_sizes)
         /\ \A k \in 1..Len(mllm_inputs[i].image_sizes) :
              LET old == mllm_inputs[i].image_sizes[k]
                  new == out.input_image_sizes[i][k]
              IN /\ new = <<old[1] + PadCount(i), old[2] + PadCount(i)>>
                 /\ new[2] - new[1] = old[2] - old[1]

\* A padded row with an input image.
C5_Witness ==
  /\ pc = "done"
  /\ \E i \in Rows :
       /\ WithImages(i)
       /\ PadCount(i) > 0
       /\ out.input_image_sizes[i][1] # mllm_inputs[i].image_sizes[1]

\* C6: position_ids of a row is p zeros and then 0, 1, ..., L + img_length;
\* the first real token has position 0 and the row is as long as the side of
\* the row's attention mask, max_len + img_length + 1.
C6_PositionIds ==
  pc = "done" =>
    \A i \in Rows :
      /\ out.position_ids[i]
           = Repeat(0, PadCount(i))
               \o [k \in 1..(RealLen(i) + ImgLength + 1) |-> k - 1]
      /\ out.position_ids[i][PadCount(i) + 1] = 0
      /\ Len(out.position_ids[i]) = SeqLen
      /\ Len(out.attention_mask[i]) = SeqLen
      /\ \A r \in 1..SeqLen : Len(out.attention_mask[i][r]) = SeqLen

\* A padded row: its positions restart at 0 behind the padding.
C6_Witness ==
  /\ pc = "done"
  /\ \E i \in Rows :
       /\ PadCount(i) > 0
       /\ out.position_ids[i][PadCount(i) + 2] = 1

\* C7: over the real_len + 1 text and time positions behind the padding,
\* mask[r][c] = 1 iff c <= r, except where r and c lie in one input-image span.
C7_CausalOverTextAndTime ==
  pc = "done" =>
    \A i \in Rows :
      \A r, c \in 0..RealLen(i) :
        LET R == PadCount(i) + r
            C == PadCount(i) + c
        IN ~InOneSpan(i, R, C) => (M(i, R, C) = 1 <=> c <= r)

\* A padded row with an input image of two tokens: the pair above the
\* diagonal inside the span is the exception, the pair next to it is not.
C7_Witness ==
  /\ pc = "done"
  /\ \E i \in Rows :
       /\ PadCount(i) > 0
       /\ \E R, C \in 0..(SeqLen - 1) :
            /\ C > R
            /\ InOneSpan(i, R, C)
            /\ M(i, R, C) = 1
            /\ ~InOneSpan(i, R - 1, C)
            /\ M(i, R - 1, C) = 0

\* C8 as stated: with p > 0 the mask is zero in every row 0..p-1 and in every
\* column 0..p-1, and position_ids is 0 at every pad slot.
C8_PadRowsAndColumnsZero ==
  pc = "done" =>
    \A i \in Rows :
      PadCount(i) > 0 =>
        /\ \A R \in 0..(PadCount(i) - 1) :
             \A C \in 0..(SeqLen - 1) : M(i, R, C) = 0 /\ M(i, C, R) = 0
        /\ \A k \in 1..PadCount(i) : out.position_ids[i][k] = 0

\* C8 amended: with p > 0 the columns 0..p-1 are zero in every row from p on;
\* the rows 0..p-1 are one in every column but the trailing img_length - n_i
\* columns zeroed for a shorter output image; position_ids is 0 at every pad
\* slot.
C8_PadColumnsZeroPadRowsOne ==
  pc = "done" =>
    \A i \in Rows :
      PadCount(i) > 0 =>
        /\ \A R \in PadCount(i)..(SeqLen - 1) :
             \A C \in 0..(PadCount(i) - 1) : M(i, R, C) = 0
        /\ \A R \in 0..(PadCount(i) - 1) :
             \A C \in 0..(SeqLen - 1) :
               M(i, R, C) = IF C >= SeqLen - (ImgLength - OutTokens(i)) THEN 0 ELSE 1
        /\ \A k \in 1..PadCount(i) : out.position_ids[i][k] = 0

\* A padded row: a pad row is open, a pad column under it is closed.
C8_Witness ==
  /\ pc = "done"
  /\ \E i \in Rows :
       /\ PadCount(i) > 0
       /\ M(i, 0, 0) = 1
       /\ M(i, 0, PadCount(i)) = 1
       /\ M(i, PadCount(i), 0) = 0
       /\ out.position_ids[i][1] = 0

\* C9 as stated: for a row with n_i = img_length every entry whose row or
\* column lies in the last img_length positions, the other coordinate being
\* outside the left padding, is 1.
C9_ImageBlockDenseRowsAndColumns ==
  pc = "done" =>
    \A i \in Rows :
      OutTokens(i) = ImgLength =>
        \A R, C \in PadCount(i)..(SeqLen - 1) :
          (R >= SeqLen - ImgLength \/ C >= SeqLen - ImgLength) => M(i, R, C) = 1

\* C9 amended: for a row with n_i = img_length every entry whose row lies in
\* the last img_length positions and whose column is outside the left padding
\* is 1; an entry whose column lies in the last img_length positions is 0
\* when its row is one of the text and time positions.
C9_ImageRowsDenseImageColumnsClosedToText ==
  pc = "done" =>
    \A i \in Rows :
      OutTokens(i) = ImgLength =>
        /\ \A R \in (SeqLen - ImgLength)..(SeqLen - 1) :
             \A C \in PadCount(i)..(SeqLen - 1) : M(i, R, C) = 1
        /\ \A R \in PadCount(i)..(SeqLen - ImgLength - 1) :
             \A C \in (SeqLen - ImgLength)..(SeqLen - 1) : M(i, R, C) = 0

\* A padded row whose output image is the largest of the batch.
C9_Witness ==
  /\ pc = "done"
  /\ \E i \in Rows :
       /\ OutTokens(i) = ImgLength
       /\ ImgLength >= 2
       /\ PadCount(i) > 0
       /\ M(i, SeqLen - 1, PadCount(i)) = 1
       /\ M(i, SeqLen - 1, SeqLen - 2) = 1
       /\ M(i, SeqLen - 2, SeqLen - 1) = 1
       /\ M(i, PadCount(i), SeqLen - 1) = 0

\* C10: the mask is 1 on [s, e) x [s, e) for every span (s, e) reported in
\* input_image_sizes; a row without input images has no entry there and keeps
\* the mask create_mask built.
C10_InputImageSpansOpen ==
  pc = "done" =>
    /\ \A i \in DOMAIN out.input_image_sizes :
         \A k \in 1..Len(out.input_image_sizes[i]) :
           LET sp == out.input_image_sizes[i][k]
           IN \A r, c \in sp[1]..(sp[2] - 1) : M(i, r, c) = 1
    /\ \A i \in Rows :
         ~WithImages(i) =>
           /\ i \notin DOMAIN out.input_image_sizes
           /\ out.attention_mask[i] = locals.created_mask[i]

\* A row whose span was opened above the diagonal, beside a row without
\* input images.
C10_Witness ==
  /\ pc = "done"
  /\ \E i, j \in Rows :
       /\ ~WithImages(j)
       /\ j \notin DOMAIN out.input_image_sizes
       /\ i \in DOMAIN out.input_image_sizes
       /\ LET sp == out.input_image_sizes[i][1]
          IN /\ sp[2] - sp[1] >= 2
             /\ locals.created_mask[i][sp[1] + 1][sp[1] + 2] = 0
             /\ M(i, sp[1], sp[1] + 1) = 1

\* C11: a row with n_i < img_length has its last img_length - n_i mask columns
\* all zero and a filler of exactly img_length - n_i zero embeddings; a row
\* with n_i = img_length has no filler and none of its image columns is
\* zeroed: each still holds the ones of the image rows.
C11_ShortOutputImageFiller ==
  pc = "done" =>
    \A i \in Rows :
      /\ OutTokens(i) < ImgLength =>
           /\ \A C \in (SeqLen - (ImgLength - OutTokens(i)))..(SeqLen - 1) :
                \A R \in 0..(SeqLen - 1) : M(i, R, C) = 0
           /\ out.padding_images[i] = Repeat(0, ImgLength - OutTokens(i))
           /\ M(i, SeqLen - 1, SeqLen - (ImgLength - OutTokens(i)) - 1) = 1
      /\ OutTokens(i) = ImgLength =>
           /\ out.padding_images[i] = None
           /\ \A C \in (SeqLen - ImgLength)..(SeqLen - 1) :
                \A R \in (SeqLen - ImgLength)..(SeqLen - 1) : M(i, R, C) = 1

\* A batch of a 1-token and a 2-token output image: the first row gets a
\* filler of one embedding, the second none.
C11_Witness ==
  /\ pc = "done"
  /\ \E i, j \in Rows :
       /\ OutTokens(i) = 1 /\ OutTokens(j) = 2
       /\ out.padding_images[i] = <<0>>
       /\ out.padding_images[j] = None
       /\ M(i, SeqLen - 1, SeqLen - 1) = 0
       /\ M(j, SeqLen - 1, SeqLen - 1) = 1

\* ------------------------------------------ claims on a generation request
NumPrompts == Len(call.instructions)
Returned == cond.data # <<>>

\* The images of prompt k as the processor sees them.
ImagesOf(k) == IF call.input_images.is_none THEN None ELSE call.input_images.list[k]

\* A row without its left padding (a unit starts with the BOS token).
RECURSIVE StripPad(_)
StripPad(row) ==
  IF row # <<>> /\ Head(row) = pad_token_id THEN StripPad(Tail(row)) ELSE row

Drop(row, n) == SubSeq(row, n + 1, Len(row))

\* The branches of a conditioner, and the batch and row of prompt k in branch b.
NumBranches(c, separate) ==
  IF separate THEN Len(c.data) ELSE Len(c.data[1].input_ids) \div NumPrompts
BatchOf(c, separate, b) == IF separate THEN c.data[b] ELSE c.data[1]
RowOf(separate, b, k) == IF separate THEN k ELSE (b - 1) * NumPrompts + k

\* What the claims compare for prompt k of branch b: the row without its
\* left padding, spans counted from the first real token.
View(c, separate, b, k) ==
  LET d == BatchOf(c, separate, b)
      r == RowOf(separate, b, k)
      p == Len(d.input_ids[r]) - Len(StripPad(d.input_ids[r]))
  IN [input_ids |-> Drop(d.input_ids[r], p),
      position_ids |-> Drop(d.position_ids[r], p),
      attention_mask |->
        [i \in 1..(Len(d.attention_mask[r]) - p) |-> Drop(d.attention_mask[r][i + p], p)],
      spans |-> IF r \in DOMAIN d.input_image_sizes
                THEN [j \in 1..Len(d.input_image_sizes[r]) |->
                        <<d.input_image_sizes[r][j][1] - p,
                          d.input_image_sizes[r][j][2] - p>>]
                ELSE <<>>]

\* The token ids of the three branches of prompt k, from the tokenizer.
ExpectedBranchIds(b, k) ==
  IF b = 1 THEN process_multi_modal_prompt(call.instructions[k], ImagesOf(k)).input_ids
  ELSE IF b = 2 \/ ImagesOf(k) = None
       THEN process_multi_modal_prompt(call.negative_prompt[k], None).input_ids
       ELSE process_multi_modal_prompt(img_cfg_prompt(Len(ImagesOf(k))),
                                       ImagesOf(k)).input_ids

\* C12: in combined mode with N prompts the rows of the batch are the N
\* positive units, then the N negative units, then (when the call has an
\* image-conditioned branch) the N image_cfg units, each in prompt order; the
\* first of three equal chunks is the positive branch, and the wrapper's
\* latents repeat the N noise rows in the same order.
C12_CombinedRowsByBranchThenPrompt ==
  (Returned /\ ~call.separate_cfg_input) =>
    LET N == NumPrompts
        B == IF call.use_img_cfg /\ ~call.input_images.is_none THEN 3 ELSE 2
        d == cond.data[1]
    IN /\ Len(d.input_ids) = B * N
       /\ Len(d.position_ids) = B * N
       /\ Len(d.attention_mask) = B * N
       /\ \A b \in 1..B : \A k \in 1..N :
            StripPad(d.input_ids[(b - 1) * N + k]) = ExpectedBranchIds(b, k)
       /\ chunk_first(d.input_ids, B) = SubSeq(d.input_ids, 1, N)
       /\ wrapper.latents # <<>> =>
            /\ Len(wrapper.latents) = B * N
            /\ \A b \in 1..B : \A k \in 1..N : wrapper.latents[(b - 1) * N + k] = k

C12_Witness ==
  /\ ppc = "called"
  /\ ~call.separate_cfg_input
  /\ NumPrompts = 2
  /\ Len(cond.data[1].input_ids) = 6
  /\ \A i, j \in 1..6 :
       i # j => StripPad(cond.data[1].input_ids[i]) # StripPad(cond.data[1].input_ids[j])

\* C13 as stated: whenever __call__ is given use_img_cfg=True and a prompt
\* has no input images, the call has an image_cfg branch and that prompt's
\* image_cfg unit equals its negative unit.
C13_ImgCfgEqualsNegativeWithoutImages ==
  (Returned /\ call.use_img_cfg) =>
    \A k \in 1..NumPrompts :
      ImagesOf(k) = None =>
        /\ NumBranches(cond, call.separate_cfg_input) = 3
        /\ View(cond, call.separate_cfg_input, 3, k)
             = View(cond, call.separate_cfg_input, 2, k)

\* C13 amended: with use_img_cfg=True and a list of image lists, the image_cfg
\* unit of a prompt whose list is empty equals its negative unit; with
\* use_img_cfg=True and input_images=None the flag is dropped and the call
\* has no image_cfg branch at all.
C13_ImgCfgEqualsNegativeWhenListsGiven ==
  (Returned /\ call.use_img_cfg) =>
    IF call.input_images.is_none
    THEN NumBranches(cond, call.separate_cfg_input) = 2
    ELSE /\ NumBranches(cond, call.separate_cfg_input) = 3
         /\ \A k \in 1..NumPrompts :
              ImagesOf(k) = None =>
                View(cond, call.separate_cfg_input, 3, k)
                  = View(cond, call.separate_cfg_input, 2, k)

C13_Witness ==
  /\ ppc = "called"
  /\ call.use_img_cfg
  /\ ~call.input_images.is_none
  /\ NumPrompts = 2
  /\ ImagesOf(1) = None
  /\ ImagesOf(2) # None
  /\ NumBranches(cond, call.separate_cfg_input) = 3
  /\ View(cond, call.separate_cfg_input, 3, 1) = View(cond, call.separate_cfg_input, 2, 1)
  /\ View(cond, call.separate_cfg_input, 3, 2) # View(cond, call.separate_cfg_input, 2, 2)

\* C14: the same call collated in combined and in separate mode has the same
\* branches, and for every branch and prompt the token ids, position ids,
\* mask and image spans are equal once the left padding is removed.
C14_ModesDifferOnlyInGrouping ==
  ppc = "compared" =>
    /\ NumBranches(cond, call.separate_cfg_input)
         = NumBranches(other, ~call.separate_cfg_input)
    /\ \A b \in 1..NumBranches(cond, call.separate_cfg_input) :
         \A k \in 1..NumPrompts :
           View(cond, call.separate_cfg_input, b, k)
             = View(other, ~call.separate_cfg_input, b, k)

C14_Witness ==
  /\ ppc = "compared"
  /\ ~call.separate_cfg_input
  /\ NumPrompts = 2
  /\ NumBranches(cond, FALSE) = 3
  /\ \E k \in 1..2 :
       /\ k \in DOMAIN cond.data[1].input_image_sizes
       /\ Head(cond.data[1].input_ids[k]) = pad_token_id
       /\ Head(other.data[1].input_ids[k]) # pad_token_id
       /\ Head(cond.data[1].input_ids[NumPrompts + k]) = pad_token_id
       /\ Head(cond.data[1].input_ids[NumPrompts + 3 - k]) = pad_token_id
       /\ Head(other.data[2].input_ids[k]) # pad_token_id

\* C15: the wrapper returns the first num_prompt rows of the
\* num_prompt * (1 + num_cfg) rows the sampler produced, in order: the rows of
\* the positive branch after the last step.
C15_ReturnsFirstNumPromptRows ==
  ppc = "returned" =>
    LET N == cond.num_conditions
        B == IF cond.input_images.is_none THEN 2 ELSE 3
    IN /\ Len(wrapper.samples) = N * B
       /\ Len(wrapper.result) = N
       /\ \A r \in 1..N :
            /\ wrapper.result[r] = wrapper.samples[r]
            /\ wrapper.result[r].row = r
            /\ wrapper.result[r].noise = r
            /\ wrapper.result[r].steps = wrapper.num_inference_steps

C15_Witness ==
  /\ ppc = "returned"
  /\ cond.num_conditions = 2
  /\ Len(wrapper.samples) = 6
  /\ Len(wrapper.result) = 2
  /\ wrapper.result[2].row = 2

\* The prompt names slot n, as "{image_n}" or as a bare "image_n".
Mentions(prompt, n) == str_contains(prompt, Curly(n)) \/ str_contains(prompt, Bare(n))

\* C16 as stated: an entry point fails before any model load whenever the
\* prompt names a slot that has no image, or a later slot has an image while
\* an earlier one is empty.
C16_FailsWhenPromptNamesEmptySlot ==
  (/\ node.status # "idle"
   /\ \/ \E n \in 1..ImageSlots : Mentions(node.prompt, n) /\ ~node.slots[n]
      \/ \E n \in 2..ImageSlots : \E m \in 1..(n - 1) : node.slots[n] /\ ~node.slots[m])
    => (node.status = "rejected" /\ ~node.model_loaded)

\* C16 amended: an entry point fails, before any model load, exactly when a
\* slot has an image the prompt does not name (neither "{image_n}" nor
\* "image_n"), or a later slot has an image while an earlier one is empty; a
\* prompt naming a slot without an image is not rejected.  Otherwise the
\* prompt handed on carries the marker of every supplied slot.
C16_FailsWhenSuppliedSlotUnnamedOrOutOfOrder ==
  node.status # "idle" =>
    /\ node.status = "rejected" <=>
         \/ \E n \in 1..ImageSlots : node.slots[n] /\ ~Mentions(node.prompt, n)
         \/ \E n \in 2..ImageSlots : \E m \in 1..(n - 1) : node.slots[n] /\ ~node.slots[m]
    /\ node.status = "rejected" => ~node.model_loaded
    /\ node.status # "rejected" =>
         /\ \A n \in 1..ImageSlots :
              node.slots[n] => /\ str_contains(node.out_prompt, Marker(n))
                               /\ ~str_contains(node.out_prompt, Curly(n))
         /\ node.input_images = [i \in 1..Len(node.input_images) |-> i]
         /\ \A n \in 1..ImageSlots : node.slots[n] <=> n <= Len(node.input_images)

C16_Witness ==
  /\ node.entry = "DZ_OmniGenV1.run_omnigen"
  /\ node.status = "rejected"
  /\ node.error = "not_mentioned"
  /\ node.slots[1] /\ node.slots[2] /\ ~node.slots[3]
  /\ node.prompt = <<Bare(1), Curly(3)>>
  /\ ~node.model_loaded

\* C17: sampling runs with the model on the compute device (with cpu offload,
\* all of it but the offloaded layers), and a call that returns leaves the
\* model wholly on the host when move_to_ram or cpu offload is set, wholly on
\* the device otherwise.
C17_OnDeviceToSampleWholeOnReturn ==
  /\ ppc = "sampling" =>
       /\ placement["other"] = "cuda"
       /\ ~wrapper.model_cpu_offload => placement = Whole("cuda")
       /\ (wrapper.model_cpu_offload /\ wrapper.step = 0) =>
            placement = offload_layers(placement)
  /\ ppc = "returned" =>
       /\ wrapper.step = wrapper.num_inference_steps
       /\ placement = IF wrapper.move_to_ram \/ wrapper.model_cpu_offload
                      THEN Whole("cpu") ELSE Whole("cuda")

C17_Witness ==
  /\ ppc = "returned"
  /\ wrapper.model_cpu_offload
  /\ ~wrapper.move_to_ram
  /\ placement = Whole("cpu")

\* C18 as stated: when an error leaves the call after the model has started
\* moving, the model is not split: it is wholly on the host or wholly on the
\* device.
C18_ErrorLeavesModelWhole ==
  ppc = "error" => placement \in {Whole("cpu"), Whole("cuda")}

\* C19 as stated: one wrapper call hands every supplied input image to the
\* VAE encoder exactly once, so it encodes as many images as were supplied.
C19_EachImageEncodedOnce ==
  ppc = "prepared" =>
    Len(wrapper.vae_calls) = SumOf([k \in 1..NumPrompts |-> Len(ImagesOf(k))])

\* The image every tag of the positive prompt k names, in text order.
ReferencedImages(k) ==
  LET tags == TagsInOrder(call.instructions[k])
  IN [j \in 1..Len(tags) |-> ImagesOf(k)[tags[j]]]

\* C19 amended: the wrapper encodes one image per entry of input_pixel_values,
\* in both modes: for every positive prompt the image of each of its tags, in
\* text order, and then for every prompt with images each of its images once
\* more for the image_cfg branch.  Nothing is cached.
C19_EncodedOncePerReferenceAndBranch ==
  ppc = "prepared" =>
    wrapper.vae_calls =
      Flatten([k \in 1..NumPrompts |-> ReferencedImages(k)])
        \o Flatten([k \in 1..NumPrompts |-> ImagesOf(k)])

C19_Witness ==
  /\ ppc = "prepared"
  /\ cond.separate_cfg_infer
  /\ NumPrompts = 2
  /\ call.instructions[1] = img_marker(1) \o img_marker(1)
  /\ ImagesOf(1) = <<img32>>
  /\ ImagesOf(2) = <<img16>>
  /\ wrapper.vae_calls = <<img32, img32, img16, img32, img16>>

\* C20: for a conditioner made by the processor node, the branches the
\* wrapper assumes (3 when conditioner['input_images'] is not None, else 2)
\* are the branches the collator built, so the rows of input_ids and the rows
\* of the latents both number num_conditions * (1 + num_cfg).
C20_AssumedBranchesArePresent ==
  cond.num_conditions > 0 =>
    LET B == IF cond.input_images.is_none THEN 2 ELSE 3
        rows == SumOf([b \in 1..Len(cond.data) |-> Len(cond.data[b].input_ids)])
    IN /\ NumBranches(cond, cond.separate_cfg_infer) = B
       /\ rows = cond.num_conditions * B
       /\ \A b \in 1..Len(cond.data) :
            Len(cond.data[b].attention_mask) = Len(cond.data[b].input_ids)
       /\ ppc \notin {"conditioned"} => Len(wrapper.latents) = rows

C20_Witness ==
  /\ ppc = "prepared"
  /\ cond.separate_cfg_infer
  /\ cond.num_conditions = 3
  /\ ImagesOf(1) = None
  /\ Len(cond.data) = 3
  /\ Len(wrapper.latents) = 9

\* C21: at every completed run of a sampling node, a model is loaded if and
\* only if the node holds none or holds one of the other quantization; the
\* model used has the quantization the dtype asks for, and is the cached one
\* when none is loaded; afterwards the node holds nothing if cache_model was
\* False and the model just used otherwise.
C21_ReloadIffNoneOrOtherQuantization ==
  models.last.status = "returned" =>
    LET l == models.last
        now == IF l.node = "sampler" THEN models.sampler ELSE models.dz
    IN /\ l.loaded <=> (l.before = NoModel
                         \/ l.before.quantization # (l.dtype = "int8"))
       /\ l.used # NoModel
       /\ l.used.quantization = (l.dtype = "int8")
       /\ IF l.loaded THEN l.used.id = models.loads /\ l.used.id > l.before.id
                      ELSE l.used = l.before
       /\ now = NoModel <=> ~l.cache_model
       /\ l.cache_model => now = l.used

C21_Witness ==
  /\ models.calls = 3
  /\ models.last.status = "returned"
  /\ models.last.node = "sampler"
  /\ models.last.before # NoModel
  /\ models.last.before.quantization
  /\ models.last.dtype = "default"
  /\ models.last.loaded
  /\ models.last.cache_model
  /\ models.sampler = Model(models.loads, FALSE)
  /\ models.loads = 2

====
